---- MODULE Spec2Model ----
(***************************************************************************)
(* NerdBot: the tool-calling chat loop (app.py), the tool handlers         *)
(* (tools.py), the record normalizer (classes.py) and the retrying RAWG    *)
(* client (database.py), as one state machine.                             *)
(*                                                                         *)
(* Python values (dicts, lists, strings, ints, None) are tagged records,   *)
(* so that dict.get, truthiness and attribute errors behave as in Python.  *)
(* An exception raised inside a pure computation is the value Raise(kind). *)
(***************************************************************************)
EXTENDS Integers, Sequences, FiniteSets, TLC

VARIABLES
    pc,          \* position of chat: AwaitingModel, DispatchingTools, InHandler, Done, Raised, Direct
    history,     \* the caller's history list (chat's argument)
    messages,    \* chat's local conversation list
    response,    \* the last model response (app.py:39)
    results,     \* handle_tool_calls' local results list (app.py:10)
    dispatched,  \* history variable: the tool calls dispatched so far, with what each invoked
    handler,     \* the tool handler frame in progress: tool name and bound arguments
    req,         \* the frame of Database._make_request_with_retry
    returned,    \* what chat returned (None before it returns)
    exception    \* the exception that left chat (None when none)

vars == <<pc, history, messages, response, results, dispatched, handler, req, returned, exception>>

---------------------------------------------------------------------------
(* Bounds of the model. *)

\* Largest max_retries argument tried when the client is called directly.
MaxRetriesBound == 3
\* Tool calls the model may request in one chat invocation, over all rounds.
MaxToolCalls == 2

---------------------------------------------------------------------------
(* Python values. *)

JNull == [t |-> "null"]
JBool(b) == [t |-> "bool", b |-> b]
JInt(n) == [t |-> "int", n |-> n]
JStr(s) == [t |-> "str", s |-> s]
JList(l) == [t |-> "list", l |-> l]
JObj(o) == [t |-> "obj", o |-> o]
EmptyDict == JObj(<<>>)

\* A raised exception, as the outcome of a computation.
Raise(kind) == [t |-> "raise", kind |-> kind]
IsRaise(v) == v.t = "raise"

\* An f-string: the parts in order.
FStr(parts) == [t |-> "fstr", parts |-> parts]

\* bool(v)
Truthy(v) ==
    CASE v.t = "null" -> FALSE
      [] v.t = "bool" -> v.b
      [] v.t = "int" -> v.n # 0
      [] v.t = "str" -> v.s # ""
      [] v.t = "list" -> Len(v.l) > 0
      [] v.t = "obj" -> DOMAIN v.o # {}
      [] OTHER -> TRUE

\* v.get(k, d): only a dict has .get
PyGet(v, k, d) ==
    IF v.t = "obj"
    THEN IF k \in DOMAIN v.o THEN v.o[k] ELSE d
    ELSE Raise("AttributeError")

\* a or b
PyOr(a, b) == IF Truthy(a) THEN a ELSE b

RECURSIVE Pow2(_)
\* 2 ** n
Pow2(n) == IF n = 0 THEN 1 ELSE 2 * Pow2(n - 1)

---------------------------------------------------------------------------
(* The provider, as the client sees it: every GET either raises a          *)
(* requests.RequestException (connection error, timeout, non-2xx status)   *)
(* or yields a decoded JSON body.                                          *)

\* str(error) of the exceptions the GET may raise.
TransportErrors == {"ConnectionError: connection refused", "HTTPError: 503 Server Error"}

GoodRecord(id, name) ==
    JObj([id |-> JInt(id), name |-> JStr(name), playtime |-> JInt(id),
          platforms |-> JList(<<JObj([platform |-> JObj([name |-> JStr("PC")])])>>),
          stores |-> JList(<<JObj([store |-> JObj([name |-> JStr("Steam")])])>>),
          genres |-> JList(<<JObj([name |-> JStr("Puzzle")])>>),
          released |-> JStr("2007-10-09"), metacritic |-> JInt(90),
          esrb_rating |-> JObj([name_en |-> JStr("Teen")])])

\* A search answer with zero matching records.
BodyNoMatch == JObj([count |-> JInt(0), results |-> JList(<<>>)])
\* Search answers with one and with four matching records.
BodyOneMatch == JObj([count |-> JInt(1), results |-> JList(<<GoodRecord(1, "Portal")>>)])
BodyFourMatches ==
    JObj([count |-> JInt(4),
          results |-> JList(<<GoodRecord(1, "Portal"), GoodRecord(2, "Portal 2"),
                              GoodRecord(3, "Portal Stories"), GoodRecord(4, "Portal Knights")>>)])
\* A record with every optional field missing or null.
BodySparseRecord == JObj([results |-> JList(<<JObj([name |-> JNull])>>)])
\* A record whose platform entry wraps null instead of a platform object.
BodyNullPlatform ==
    JObj([results |-> JList(<<JObj([id |-> JInt(5), name |-> JStr("Myst"),
                                    platforms |-> JList(<<JObj([platform |-> JNull])>>)])>>)])
\* A results list whose element is not an object.
BodyScalarRecord == JObj([results |-> JList(<<JInt(7)>>)])
\* A body that is a JSON array, not an object.
BodyArray == JList(<<JInt(7)>>)
\* The answer of the details endpoint.
BodyDetails == JObj([id |-> JInt(1), name |-> JStr("Portal"), description |-> JStr("A puzzle game")])

Bodies == {BodyNoMatch, BodyOneMatch, BodyFourMatches, BodySparseRecord,
           BodyNullPlatform, BodyScalarRecord, BodyArray, BodyDetails}

---------------------------------------------------------------------------
(* Database._make_request_with_retry *)

DefaultMaxRetries == 3
DefaultBaseDelayMs == 1000
\* random.uniform(0, 0.1), in milliseconds: the draws tried are the ends of the range.
JitterRangeMs == 100
Jitters == {0, JitterRangeMs - 1}
BaseDelaysMs == {DefaultBaseDelayMs, JitterRangeMs, 1}

IdleReq == [pc |-> "idle"]

ErrorEnvelope(last_error) ==
    JObj([success |-> JBool(FALSE),
          error |-> JStr(IF last_error.t = "null" THEN "None" ELSE last_error.s)])

\* A slip: the response object's text is returned instead of its decoded body.
SuccessEnvelopeUndecoded(body) ==
    JObj([success |-> JBool(TRUE), results |-> JStr("<Response [200]>")])

SuccessEnvelope(body) == JObj([success |-> JBool(TRUE), results |-> body])

\* A slip: one attempt too many.
InRangeInclusive(attempt, max_retries) == attempt <= max_retries

\* Whether the loop body runs for this attempt index: for attempt in range(max_retries)
InRange(attempt, max_retries) == attempt < max_retries

\* A slip: the last allowed attempt is followed by a sleep too.
RetriesAfterEveryFailure(attempt, max_retries) == attempt < max_retries

\* Whether a failed attempt is followed by a sleep and another attempt.
RetriesAfter(attempt, max_retries) == attempt < max_retries - 1

\* A slip: the exponent counts the attempt about to be made, not the one that failed.
BackoffDelayExponentAhead(base_delay, attempt, jitter) == base_delay * Pow2(attempt + 1) + jitter

\* A slip: the delay does not grow with the attempt.
BackoffDelayConstant(base_delay, attempt, jitter) == base_delay + jitter

\* base_delay * (2 ** attempt) + random.uniform(0, 0.1)
BackoffDelay(base_delay, attempt, jitter) == base_delay * Pow2(attempt) + jitter

\* The frame on entry, up to the first GET (or the return, when the range is empty).
EnterRequest(url, params, max_retries, base_delay) ==
    LET f == [pc |-> "try", url |-> url, params |-> params, max_retries |-> max_retries,
              base_delay |-> base_delay, attempt |-> 0, last_error |-> JNull,
              delays |-> <<>>, log |-> <<>>, ret |-> JNull]
    IN IF InRange(0, max_retries)
       THEN f
       ELSE [f EXCEPT !.pc = "returned", !.ret = ErrorEnvelope(JNull)]

\* A slip: an empty result set is taken for a failure and the request is tried again.
GetSucceedsRetryOnEmpty ==
    /\ req.pc = "try"
    /\ \E body \in Bodies :
         LET logged == [req EXCEPT !.log = Append(@, [ok |-> TRUE, body |-> body])]
             empty == body.t = "obj" /\ "results" \in DOMAIN body.o /\ ~Truthy(body.o.results)
         IN req' = IF empty /\ InRange(req.attempt + 1, req.max_retries)
                   THEN [logged EXCEPT !.attempt = @ + 1]
                   ELSE [logged EXCEPT !.pc = "returned", !.ret = SuccessEnvelope(body)]
    /\ UNCHANGED <<pc, history, messages, response, results, dispatched, handler, returned, exception>>

\* The GET answers 2xx with a decodable body: return at once.
GetSucceeds ==
    /\ req.pc = "try"
    /\ \E body \in Bodies :
         req' = [req EXCEPT !.pc = "returned",
                            !.log = Append(@, [ok |-> TRUE, body |-> body]),
                            !.ret = SuccessEnvelope(body)]
    /\ UNCHANGED <<pc, history, messages, response, results, dispatched, handler, returned, exception>>

\* The GET raises a RequestException: remember it, sleep unless this was the last
\* attempt, then go round the loop again or fall out of it and return the error.
GetFails ==
    /\ req.pc = "try"
    /\ \E err \in TransportErrors, jitter \in Jitters :
         LET logged == [req EXCEPT !.last_error = JStr(err),
                                   !.log = Append(@, [ok |-> FALSE, error |-> err])]
             slept == IF RetriesAfter(req.attempt, req.max_retries)
                      THEN [logged EXCEPT !.delays =
                              Append(@, BackoffDelay(req.base_delay, req.attempt, jitter))]
                      ELSE logged
         IN req' = IF InRange(req.attempt + 1, req.max_retries)
                   THEN [slept EXCEPT !.attempt = @ + 1]
                   ELSE [slept EXCEPT !.pc = "returned",
                                      !.ret = ErrorEnvelope(slept.last_error)]
    /\ UNCHANGED <<pc, history, messages, response, results, dispatched, handler, returned, exception>>

\* The client called on its own, with any retry budget and base delay.
ClientInit ==
    /\ pc = "Direct"
    /\ history = <<>>
    /\ messages = <<>>
    /\ response = JNull
    /\ results = <<>>
    /\ dispatched = <<>>
    /\ handler = JNull
    /\ returned = JNull
    /\ exception = JNull
    /\ \E max_retries \in 0..MaxRetriesBound, base_delay \in BaseDelaysMs :
         req = EnterRequest("games", EmptyDict, max_retries, base_delay)

ClientNext == GetSucceeds \/ GetFails

SpecClient == ClientInit /\ [][ClientNext]_vars

---------------------------------------------------------------------------
(* classes.py: the pydantic response models and the normalizer. *)

\* A constructed pydantic object, and its model_dump().
Model(cls, fields) == [t |-> "model", cls |-> cls, fields |-> fields]
ModelDump(obj) == JObj(obj.fields)

\* The first raised exception among the values, in evaluation order, or None.
RECURSIVE FirstRaise(_)
FirstRaise(vals) ==
    IF vals = <<>> THEN JNull
    ELSE IF IsRaise(Head(vals)) THEN Head(vals) ELSE FirstRaise(Tail(vals))

\* got or d, where getting may have raised
OrDefault(got, d) == IF IsRaise(got) THEN got ELSE PyOr(got, d)

\* v.get(k) or d
GetOr(v, k, d) == OrDefault(PyGet(v, k, JNull), d)

\* pydantic's check of a field against its declared type. The payloads tried hold
\* no value that one pydantic version coerces and another rejects.
HasType(v, types) == v.t \in types
AllStr(l) == \A i \in 1..Len(l) : l[i].t = "str"

\* cls(name=..., game_id=..., description=...)
GameDescriptionResponse(name, game_id, description) ==
    IF FirstRaise(<<name, game_id, description>>) # JNull
    THEN FirstRaise(<<name, game_id, description>>)
    ELSE IF HasType(name, {"str"}) /\ HasType(game_id, {"int"}) /\ HasType(description, {"str"})
    THEN Model("GameDescriptionResponse",
               [name |-> name, game_id |-> game_id, description |-> description])
    ELSE Raise("ValidationError")

\* GameDescriptionResponse.create_description_response_from_json
CreateDescription(payload) ==
    GameDescriptionResponse(GetOr(payload, "name", JStr("")),
                            GetOr(payload, "id", JInt(0)),
                            GetOr(payload, "description", JStr("")))

\* inner.get("name") of the sub-object an entry wraps
InnerName(inner) == IF IsRaise(inner) THEN inner ELSE PyGet(inner, "name", JNull)

\* entry.get(wrapper, {}).get("name"), or entry.get("name") for a genre entry
EntryName(entry, wrapper) ==
    IF wrapper = ""
    THEN PyGet(entry, "name", JNull)
    ELSE InnerName(PyGet(entry, wrapper, EmptyDict))

\* One step of the comprehension: the name is kept when it is truthy.
KeepName(name, rest) ==
    IF IsRaise(name) THEN name
    ELSE IF IsRaise(rest) THEN rest
    ELSE IF Truthy(name) THEN JList(<<name>> \o rest.l) ELSE rest

\* [name(e) for e in entries if name(e)]
RECURSIVE NamesOf(_, _)
NamesOf(entries, wrapper) ==
    IF entries = <<>> THEN JList(<<>>)
    ELSE KeepName(EntryName(Head(entries), wrapper), NamesOf(Tail(entries), wrapper))

\* What iterating a value that is no list raises: the items of a dict or a str are
\* strings, which have no .get; a number is not iterable.
NotAListError(v) == IF v.t \in {"int", "bool"} THEN Raise("TypeError") ELSE Raise("AttributeError")

\* The comprehension over the entries of one field.
NamesOfEntries(entries, wrapper) ==
    IF IsRaise(entries) THEN entries
    ELSE IF entries.t = "list" THEN NamesOf(entries.l, wrapper)
    ELSE NotAListError(entries)

\* A slip: the default covers a missing field only, not a null one.
EntryNamesDefaultOnly(result, field, wrapper) ==
    NamesOfEntries(PyGet(result, field, JList(<<>>)), wrapper)

\* The names of result[field], each entry wrapped in a `wrapper` sub-object.
EntryNames(result, field, wrapper) ==
    NamesOfEntries(GetOr(result, field, JList(<<>>)), wrapper)

\* esrb_rating_data.get("name_en") when the rating is a dict
NameEn(esrb_rating_data) ==
    IF IsRaise(esrb_rating_data) THEN esrb_rating_data
    ELSE IF esrb_rating_data.t = "obj" THEN PyGet(esrb_rating_data, "name_en", JNull)
    ELSE JNull

\* The localized ESRB rating.
EsrbRatingName(result) == NameEn(PyGet(result, "esrb_rating", JNull))

\* int(v)
PyInt(v) ==
    CASE IsRaise(v) -> v
      [] v.t = "int" -> v
      [] v.t = "bool" -> JInt(IF v.b THEN 1 ELSE 0)
      [] v.t = "str" -> Raise("ValueError")
      [] OTHER -> Raise("TypeError")

\* cls(name=..., ..., esrb_rating=...) of GameDetailsResponse: the first exception
\* raised while the values were computed, else pydantic's validation.
GameDetailsResponse(platform_names, store_names, genre_names, esrb_rating_name, name, game_id, average_playtime, released, metacritic_score) ==
    LET raised == FirstRaise(<<platform_names, store_names, genre_names, esrb_rating_name,
                               name, game_id, average_playtime, released, metacritic_score>>)
    IN IF raised # JNull THEN raised
       ELSE IF /\ HasType(name, {"str"}) /\ HasType(game_id, {"int"})
               /\ AllStr(platform_names.l) /\ AllStr(store_names.l) /\ AllStr(genre_names.l)
               /\ HasType(released, {"str"})
               /\ HasType(metacritic_score, {"int", "null"})
               /\ HasType(esrb_rating_name, {"str", "null"})
       THEN Model("GameDetailsResponse",
                  [name |-> name, game_id |-> game_id, average_playtime |-> average_playtime,
                   platforms |-> platform_names, stores |-> store_names, genres |-> genre_names,
                   released |-> released, metacritic_score |-> metacritic_score,
                   esrb_rating |-> esrb_rating_name])
       ELSE Raise("ValidationError")

\* One pass of the loop body of create_game_objects_from_search_results.
NormalizeRecord(result) ==
    GameDetailsResponse(EntryNames(result, "platforms", "platform"),
                        EntryNames(result, "stores", "store"),
                        EntryNames(result, "genres", ""),
                        EsrbRatingName(result),
                        GetOr(result, "name", JStr("")),
                        GetOr(result, "id", JInt(0)),
                        PyInt(GetOr(result, "playtime", JInt(0))),
                        GetOr(result, "released", JStr("")),
                        PyGet(result, "metacritic", JNull))

\* parsed_games.append(game_details), unless building it or a later one raised
AppendGame(game_details, rest) ==
    IF IsRaise(game_details) THEN game_details
    ELSE IF IsRaise(rest) THEN rest
    ELSE JList(<<game_details>> \o rest.l)

RECURSIVE NormalizeAll(_)
NormalizeAll(records) ==
    IF records = <<>> THEN JList(<<>>)
    ELSE AppendGame(NormalizeRecord(Head(records)), NormalizeAll(Tail(records)))

\* GameDetailsResponse.create_game_objects_from_search_results
CreateGameObjects(search_results) ==
    IF ~Truthy(search_results) THEN JList(<<>>)
    ELSE IF search_results.t = "list" THEN NormalizeAll(search_results.l)
    ELSE NotAListError(search_results)

---------------------------------------------------------------------------
(* database.py: the three lookups, each one GET through the retrying client. *)

RAWG_GAMES_API_BASE_URL == JStr("https://api.rawg.io/api/games")
\* os.getenv("RAWG_API_KEY")
RawgApiKey == JStr("<RAWG_API_KEY>")

\* ",".join(...) of the items, and f"{low},{high}"
Joined(items) == [t |-> "joined", items |-> items]
Range(low, high) == [t |-> "range", low |-> low, high |-> high]

\* A key the dict gets only under a condition.
Opt(cond, entry) == IF cond THEN entry ELSE <<>>

\* Database.get_game_details: url and params of its request
GetGameDetailsRequest(game_id) ==
    [t |-> "request", url |-> FStr(<<RAWG_GAMES_API_BASE_URL, JStr("/"), game_id>>),
     params |-> JObj([key |-> RawgApiKey, exclude_additions |-> JBool(TRUE)])]

\* Database.search_game_by_name: url and params of its request
SearchGameByNameRequest(game_name) ==
    [t |-> "request", url |-> RAWG_GAMES_API_BASE_URL,
     params |-> JObj([key |-> RawgApiKey, search |-> game_name,
                      exclude_additions |-> JBool(TRUE)])]

\* Database.find_multiple_games_by_conditions: url and params of its request
FindMultipleGamesByConditionsRequest(a) ==
    IF \E k \in {"developers", "publishers", "genres", "tags"} :
         Truthy(a[k]) /\ ~AllStr(a[k].l)
    THEN Raise("TypeError")
    ELSE
    [t |-> "request", url |-> RAWG_GAMES_API_BASE_URL,
     params |-> JObj(
        [key |-> RawgApiKey,
         page_size |-> a.page_size,
         dates |-> Range(a.release_date_lower_bound, a.release_date_upper_bound),
         metacritic |-> Range(a.metacritic_lower_bound, a.metacritic_upper_bound),
         exclude_additions |-> JBool(TRUE)]
        @@ Opt(a.title # JNull, [search |-> a.title])
        @@ Opt(Truthy(a.parent_platform_ids), [parent_platforms |-> Joined(a.parent_platform_ids.l)])
        @@ Opt(Truthy(a.platform_ids), [platforms |-> Joined(a.platform_ids.l)])
        @@ Opt(Truthy(a.store_ids), [stores |-> Joined(a.store_ids.l)])
        @@ Opt(Truthy(a.developers), [developers |-> Joined(a.developers.l)])
        @@ Opt(Truthy(a.publishers), [publishers |-> Joined(a.publishers.l)])
        @@ Opt(Truthy(a.genres), [genres |-> Joined(a.genres.l)])
        @@ Opt(Truthy(a.tags), [tags |-> Joined(a.tags.l)])
        @@ Opt(a.ordering # JNull, [ordering |-> a.ordering]))]

---------------------------------------------------------------------------
(* tools.py: slug translation, parameter normalization and the handlers. *)

\* The slug tables of constants.py.
PLATFORM_SLUG_TO_ID == [playstation5 |-> 187, pc |-> 4]
PARENT_PLATFORM_SLUG_TO_ID == [playstation |-> 2, pc |-> 1]
STORE_SLUG_TO_ID == [steam |-> 1, gog |-> 5]

\* A slip: the table is indexed instead of asked, so an unknown slug raises KeyError.
RECURSIVE SlugIdsIndexed(_, _)
SlugIdsIndexed(slugs, table) ==
    IF slugs = <<>> THEN JList(<<>>)
    ELSE LET slug == Head(slugs)
             rest == SlugIdsIndexed(Tail(slugs), table)
         IN IF slug.t \in {"list", "obj"} THEN Raise("TypeError")
            ELSE IF ~(slug.t = "str" /\ slug.s \in DOMAIN table) THEN Raise("KeyError")
            ELSE IF IsRaise(rest) THEN rest
            ELSE JList(<<JInt(table[slug.s])>> \o rest.l)

\* for slug in slugs: table.get(slug), kept when it is not None
RECURSIVE SlugIds(_, _)
SlugIds(slugs, table) ==
    IF slugs = <<>> THEN JList(<<>>)
    ELSE LET slug == Head(slugs)
             rest == SlugIds(Tail(slugs), table)
         IN IF slug.t \in {"list", "obj"} THEN Raise("TypeError")
            ELSE IF IsRaise(rest) THEN rest
            ELSE IF slug.t = "str" /\ slug.s \in DOMAIN table
            THEN JList(<<JInt(table[slug.s])>> \o rest.l)
            ELSE rest

_get_platform_ids(slugs) == SlugIds(slugs.l, PLATFORM_SLUG_TO_ID)
_get_parent_platform_ids(slugs) == SlugIds(slugs.l, PARENT_PLATFORM_SLUG_TO_ID)
_get_store_ids(slugs) == SlugIds(slugs.l, STORE_SLUG_TO_ID)

\* A slip: a value that is no list is dropped instead of wrapped.
NormalizeListParamDropsScalar(param) == IF param.t = "list" THEN param ELSE JList(<<>>)

_normalize_list_param(param) ==
    IF param.t = "null" THEN JList(<<>>)
    ELSE IF param.t = "list" THEN param
    ELSE JList(<<param>>)

\* datetime.datetime.now().strftime('%Y-%m-%d')
Today == JStr("2025-11-06")

get_current_date == JObj([success |-> JBool(TRUE), results |-> FStr(<<JStr("Today's date is "), Today>>)])

\* A slip: the handler looks for the client's message under the handlers' own key.
DatabaseErrorWrongKey(db_response, default) ==
    JObj([success |-> JBool(FALSE),
          failure_reason |-> FStr(<<JStr("Database error: "),
                                    PyGet(db_response, "failure_reason", JStr(default))>>)])

\* The failure envelope of a handler whose lookup gave nothing.
DatabaseError(db_response, default) ==
    JObj([success |-> JBool(FALSE),
          failure_reason |-> FStr(<<JStr("Database error: "),
                                    PyGet(db_response, "error", JStr(default))>>)])

ParsingError(error) ==
    JObj([success |-> JBool(FALSE),
          failure_reason |-> FStr(<<JStr("Parsing error: "), JStr(error.kind)>>)])

FailedToParse ==
    JObj([success |-> JBool(FALSE), failure_reason |-> JStr("Failed to parse database results.")])

\* not db_response.get("success") or not rawg_payload
NothingFetched(db_response, rawg_payload) ==
    ~Truthy(PyGet(db_response, "success", JNull)) \/ ~Truthy(rawg_payload)

\* body.get("results") of what db_response holds as results
InnerResults(body) == IF IsRaise(body) THEN body ELSE PyGet(body, "results", JNull)

\* (db_response or {}).get("results", {}).get("results")
SearchPayload(db_response) ==
    InnerResults(PyGet(PyOr(db_response, EmptyDict), "results", EmptyDict))

\* A slip: the slice is taken from the end of the list, objects[-n:].
DumpLast(objects, n) ==
    LET k == IF n < Len(objects) THEN n ELSE Len(objects)
    IN [i \in 1..k |-> ModelDump(objects[Len(objects) - k + i])]

\* objects[:n], each model_dump()ed
RECURSIVE DumpFirst(_, _)
DumpFirst(objects, n) ==
    IF n = 0 \/ objects = <<>> THEN <<>>
    ELSE <<ModelDump(Head(objects))>> \o DumpFirst(Tail(objects), n - 1)

\* Lines 99-106: the try block of get_game_description and its except.
DescriptionEnvelope(response_object) ==
    IF IsRaise(response_object) THEN ParsingError(response_object)
    ELSE JObj([success |-> JBool(TRUE), results |-> ModelDump(response_object)])

\* Lines 91-106 of get_game_description.
DescriptionFromPayload(db_response, rawg_payload) ==
    IF NothingFetched(db_response, rawg_payload)
    THEN DatabaseError(db_response, "An unknown error occurred while fetching from the database.")
    ELSE DescriptionEnvelope(CreateDescription(rawg_payload))

\* get_game_description, from the client's answer on
GetGameDescriptionFinish(db_response) ==
    DescriptionFromPayload(db_response, PyGet(db_response, "results", JNull))

\* How many of the parsed matches find_game_by_name returns.
PrimaryMatches == 3

\* Lines 127-136 of find_game_by_name and 195-203 of find_multiple_games: the
\* first `limit` of the parsed games, or all of them without a limit (limit < 0).
GamesEnvelope(game_objects, limit) ==
    IF IsRaise(game_objects) THEN game_objects
    ELSE IF ~Truthy(game_objects) THEN FailedToParse
    ELSE JObj([success |-> JBool(TRUE),
               results |-> JList(DumpFirst(game_objects.l,
                                           IF limit < 0 THEN Len(game_objects.l) ELSE limit))])

\* A slip: only the client's success is looked at, so an answer without matches is
\* passed on as a success with no results.
GameByNameTrustsClient(db_response, rawg_payload) ==
    IF IsRaise(rawg_payload) THEN rawg_payload
    ELSE IF ~Truthy(PyGet(db_response, "success", JNull))
    THEN DatabaseError(db_response, "An unknown error occurred while fetching from the database.")
    ELSE IF ~Truthy(rawg_payload)
    THEN JObj([success |-> JBool(TRUE), results |-> JList(<<>>)])
    ELSE GamesEnvelope(CreateGameObjects(rawg_payload), PrimaryMatches)

\* Lines 114-136 of find_game_by_name.
GameByNameFromPayload(db_response, rawg_payload) ==
    IF IsRaise(rawg_payload) THEN rawg_payload
    ELSE IF NothingFetched(db_response, rawg_payload)
    THEN DatabaseError(db_response, "An unknown error occurred while fetching from the database.")
    ELSE GamesEnvelope(CreateGameObjects(rawg_payload), PrimaryMatches)

\* find_game_by_name, from the client's answer on
FindGameByNameFinish(db_response) ==
    GameByNameFromPayload(db_response, SearchPayload(db_response))

\* Lines 184-203 of find_multiple_games.
MultipleGamesFromPayload(db_response, rawg_payload) ==
    IF IsRaise(rawg_payload) THEN rawg_payload
    ELSE IF NothingFetched(db_response, rawg_payload)
    THEN DatabaseError(db_response, "Unknown database error.")
    ELSE GamesEnvelope(CreateGameObjects(rawg_payload), -1)

\* find_multiple_games, from the client's answer on
FindMultipleGamesFinish(db_response) ==
    MultipleGamesFromPayload(db_response, SearchPayload(db_response))

\* The keyword parameters of find_multiple_games.
FindMultipleGamesParams ==
    {"num_results", "title", "parent_platforms", "platforms", "stores", "developers",
     "publishers", "genres", "tags", "release_date_lower_bound", "release_date_upper_bound",
     "metacritic_lower_bound", "metacritic_upper_bound", "ordering"}

\* A keyword argument, or the parameter's default.
Arg(arguments, k, default) == IF k \in DOMAIN arguments.o THEN arguments.o[k] ELSE default

\* A slip: the default is taken for every falsy bound, 0 included.
IfTruthy(v, default) == PyOr(v, default)

\* v if v is not None else default
IfNotNone(v, default) == IF v # JNull THEN v ELSE default

\* find_multiple_games, up to its call of the client: the url and params of the request
FindMultipleGamesRequest(arguments) ==
    LET parent_platforms == _normalize_list_param(Arg(arguments, "parent_platforms", JNull))
        platforms == _normalize_list_param(Arg(arguments, "platforms", JNull))
        stores == _normalize_list_param(Arg(arguments, "stores", JNull))
        release_date_lower_bound == Arg(arguments, "release_date_lower_bound", JNull)
        release_date_upper_bound == Arg(arguments, "release_date_upper_bound", JNull)
        metacritic_lower_bound == Arg(arguments, "metacritic_lower_bound", JNull)
        metacritic_upper_bound == Arg(arguments, "metacritic_upper_bound", JNull)
        parent_platform_ids == _get_parent_platform_ids(parent_platforms)
        platform_ids == _get_platform_ids(platforms)
        store_ids == _get_store_ids(stores)
        raised == FirstRaise(<<parent_platform_ids, platform_ids, store_ids>>)
    IN IF raised # JNull THEN raised
       ELSE FindMultipleGamesByConditionsRequest(
              [page_size |-> Arg(arguments, "num_results", JInt(5)),
               title |-> Arg(arguments, "title", JNull),
               parent_platform_ids |-> parent_platform_ids,
               platform_ids |-> platform_ids,
               store_ids |-> store_ids,
               developers |-> _normalize_list_param(Arg(arguments, "developers", JNull)),
               publishers |-> _normalize_list_param(Arg(arguments, "publishers", JNull)),
               genres |-> _normalize_list_param(Arg(arguments, "genres", JNull)),
               tags |-> _normalize_list_param(Arg(arguments, "tags", JNull)),
               release_date_lower_bound |-> PyOr(release_date_lower_bound, JStr("1800-01-01")),
               release_date_upper_bound |-> PyOr(release_date_upper_bound, JStr("3000-01-01")),
               metacritic_lower_bound |-> IfNotNone(metacritic_lower_bound, JInt(0)),
               metacritic_upper_bound |-> IfNotNone(metacritic_upper_bound, JInt(100)),
               ordering |-> Arg(arguments, "ordering", JNull)])

---------------------------------------------------------------------------
(* app.py: handle_tool_calls and chat. *)

SYSTEM_PROMPT == JStr("<SYSTEM_PROMPT>")
persona_reminder == JStr("REMINDER: Maintain your persona.")

\* The histories and the message chat is called with.
Histories ==
    {<<>>,
     <<[role |-> "user", content |-> JStr("hi")],
       [role |-> "assistant", content |-> JStr("Greetings, fellow gamer!")]>>}
UserMessage == JStr("Tell me about Portal")

\* The conversation chat starts from.
InitialMessages(message, hist) ==
    <<[role |-> "system", content |-> SYSTEM_PROMPT]>>
    \o hist
    \o <<[role |-> "user", content |-> FStr(<<message, JStr("\n\n"), persona_reminder>>)]>>

\* json.loads of the argument texts the model is taken to produce; any other text
\* (here: one cut off in the middle) is not JSON.
JsonLoads(text) ==
    CASE text = "{}" -> EmptyDict
      [] text = "{\"game_name\": \"Portal\"}" -> JObj([game_name |-> JStr("Portal")])
      [] text = "{\"game_id\": 1}" -> JObj([game_id |-> JInt(1)])
      [] text = "{\"platforms\": \"playstation5\", \"ordering\": \"-metacritic\", \"num_results\": 2}" ->
             JObj([platforms |-> JStr("playstation5"), ordering |-> JStr("-metacritic"),
                   num_results |-> JInt(2)])
      [] OTHER -> Raise("JSONDecodeError")

\* json.dumps(result): the text that serializes the value.
JsonDumps(v) == [t |-> "json", of |-> v]

\* The name and argument text of the tool calls the model is taken to request.
ToolCallChoices ==
    {[name |-> "get_current_date", arguments |-> "{}"],
     [name |-> "find_game_by_name", arguments |-> "{\"game_name\": \"Portal\"}"],
     [name |-> "find_game_by_name", arguments |-> "{\"game_name\": \"Por"],
     [name |-> "find_game_by_name", arguments |-> "{}"],
     [name |-> "find_multiple_games",
      arguments |-> "{\"platforms\": \"playstation5\", \"ordering\": \"-metacritic\", \"num_results\": 2}"],
     [name |-> "get_game_description", arguments |-> "{\"game_id\": 1}"],
     [name |-> "lookup_game", arguments |-> "{}"],
     [name |-> "json", arguments |-> "{}"]}

\* The n-th tool call of the invocation: the model gives every call an id of its own.
ToolCall(n, choice) ==
    [id |-> [call |-> n], type |-> "function",
     function |-> [name |-> choice.name, arguments |-> choice.arguments]]

\* The tool-call lists of 1..n calls, the first of them call number first + 1.
ToolCallLists(first, n) ==
    UNION {{[i \in 1..k |-> ToolCall(first + i, choices[i])] :
              choices \in [1..k -> ToolCallChoices]} : k \in 1..n}

\* The names VIDEO_GAME_TOOLS declares.
VIDEO_GAME_TOOLS == {"get_current_date", "find_game_by_name", "find_multiple_games"}

\* The functions among the module's globals, with the keywords each requires and accepts.
Signatures ==
    [get_current_date |-> [required |-> {}, accepted |-> {}],
     get_game_description |-> [required |-> {"game_id"}, accepted |-> {"game_id"}],
     find_game_by_name |-> [required |-> {"game_name"}, accepted |-> {"game_name"}],
     find_multiple_games |-> [required |-> {}, accepted |-> FindMultipleGamesParams],
     handle_tool_calls |-> [required |-> {"tool_calls"}, accepted |-> {"tool_calls"}],
     chat |-> [required |-> {"message", "history"}, accepted |-> {"message", "history"}]]

\* Globals that are no functions: modules, the shared Database object, constants.
OtherGlobals == {"json", "gr", "openai", "datetime", "DATABASE", "SYSTEM_PROMPT", "VIDEO_GAME_TOOLS"}

\* globals().get(tool_name)
GlobalsGet(tool_name) ==
    IF tool_name \in DOMAIN Signatures THEN [t |-> "function", name |-> tool_name]
    ELSE IF tool_name \in OtherGlobals THEN [t |-> "object", name |-> tool_name]
    ELSE JNull

\* Whether tool(**arguments) raises TypeError before the function body runs.
CallFails(tool, arguments) ==
    \/ tool.t # "function"
    \/ arguments.t # "obj"
    \/ ~(Signatures[tool.name].required \subseteq DOMAIN arguments.o)
    \/ ~(DOMAIN arguments.o \subseteq Signatures[tool.name].accepted)

\* The request a handler sends to the client.
HandlerRequest(tool_name, arguments) ==
    CASE tool_name = "get_game_description" -> GetGameDetailsRequest(arguments.o.game_id)
      [] tool_name = "find_game_by_name" -> SearchGameByNameRequest(arguments.o.game_name)
      [] tool_name = "find_multiple_games" -> FindMultipleGamesRequest(arguments)

\* The rest of a handler once the client has answered.
HandlerFinish(tool_name, db_response) ==
    CASE tool_name = "get_game_description" -> GetGameDescriptionFinish(db_response)
      [] tool_name = "find_game_by_name" -> FindGameByNameFinish(db_response)
      [] tool_name = "find_multiple_games" -> FindMultipleGamesFinish(db_response)

\* The handler's code up to its call of the client: that request, or what it raised.
HandlerStarted(request) ==
    IF IsRaise(request) THEN [kind |-> "raise", exc |-> request, invoked |-> TRUE]
    ELSE [kind |-> "request", request |-> request, invoked |-> TRUE]

\* Line 15, tool(**arguments) if tool else {}
Invoke(tool_name, tool, arguments) ==
    IF IsRaise(arguments) THEN [kind |-> "raise", exc |-> arguments, invoked |-> FALSE]
    ELSE IF ~Truthy(tool) THEN [kind |-> "result", result |-> EmptyDict, invoked |-> FALSE]
    ELSE IF CallFails(tool, arguments)
    THEN [kind |-> "raise", exc |-> Raise("TypeError"), invoked |-> FALSE]
    ELSE IF tool_name = "get_current_date"
    THEN [kind |-> "result", result |-> get_current_date, invoked |-> TRUE]
    ELSE HandlerStarted(HandlerRequest(tool_name, arguments))

\* Lines 12-15 for one tool call, as far as they go without the provider:
\*   raise: an exception leaves handle_tool_calls
\*   result: the call's result is there
\*   request: the handler has called the client with this url and params
Dispatch(tool_call) ==
    Invoke(tool_call.function.name,
           GlobalsGet(tool_call.function.name),
           JsonLoads(tool_call.function.arguments))

\* Line 16: the tool turn for a call's result.
ToolTurn(tool_call, result) ==
    [role |-> "tool", content |-> JsonDumps(result), tool_call_id |-> tool_call.id]

\* The tool call the loop of handle_tool_calls is at.
CurrentCall == response.message.tool_calls[Len(results) + 1]

\* A slip: the results are appended before the message that requested them.
RoundAppendedResultsFirst(msgs, message, round_results) == (msgs \o round_results) \o <<message>>

\* A slip: the results come out in the reverse of the request order.
RoundAppendedReversed(msgs, message, round_results) ==
    (msgs \o <<message>>)
    \o [i \in 1..Len(round_results) |-> round_results[Len(round_results) + 1 - i]]

\* A slip: the round's turns are written over the last turn of the conversation.
RoundAppendedOverLast(msgs, message, round_results) ==
    (SubSeq(msgs, 1, Len(msgs) - 1) \o <<message>>) \o round_results

\* Lines 49-50: the conversation after a round.
RoundAppended(msgs, message, round_results) == (msgs \o <<message>>) \o round_results

\* Lines 48-50 once handle_tool_calls has its last result, else its loop goes on.
RoundGoesOn(new_results) ==
    IF Len(new_results) = Len(response.message.tool_calls)
    THEN /\ messages' = RoundAppended(messages, response.message, new_results)
         /\ results' = <<>>
         /\ pc' = "AwaitingModel"
    ELSE /\ results' = new_results
         /\ pc' = "DispatchingTools"
         /\ UNCHANGED messages

\* A result is appended to results; after the last one handle_tool_calls returns and
\* chat appends the model's message and the results and goes back to the model.
ResultAppended(result) == RoundGoesOn(Append(results, ToolTurn(CurrentCall, result)))

\* An exception leaves handle_tool_calls and, uncaught, chat.
ChatRaises(exc) ==
    /\ pc' = "Raised"
    /\ exception' = exc
    /\ results' = <<>>
    /\ handler' = JNull
    /\ req' = IdleReq
    /\ UNCHANGED <<history, messages, response, returned>>

Dispatched(tool_call, invoked) == Append(dispatched, [call |-> tool_call, invoked |-> invoked])

\* A slip: the loop ends on a request for tool calls too.
ModelRequestsToolsAndReturns ==
    /\ pc = "AwaitingModel"
    /\ \E tool_calls \in ToolCallLists(Len(dispatched), MaxToolCalls - Len(dispatched)) :
         response' = [finish_reason |-> "tool_calls",
                      message |-> [role |-> "assistant", content |-> JNull,
                                   tool_calls |-> tool_calls]]
    /\ pc' = "Done"
    /\ returned' = JNull
    /\ UNCHANGED <<history, messages, results, dispatched, handler, req, exception>>

\* The model answers with a request for tool calls (finish_reason == "tool_calls").
ModelRequestsTools ==
    /\ pc = "AwaitingModel"
    /\ \E tool_calls \in ToolCallLists(Len(dispatched), MaxToolCalls - Len(dispatched)) :
         response' = [finish_reason |-> "tool_calls",
                      message |-> [role |-> "assistant", content |-> JNull,
                                   tool_calls |-> tool_calls]]
    /\ pc' = "DispatchingTools"
    /\ results' = <<>>
    /\ UNCHANGED <<history, messages, dispatched, handler, req, returned, exception>>

\* A slip: the else branch forgets done = True, so the loop asks the model again.
ModelAnswersLoopsOn ==
    /\ pc = "AwaitingModel"
    /\ \E finish \in {[reason |-> "stop", content |-> JStr("Portal is a puzzle game.")],
                      [reason |-> "length", content |-> JStr("Portal is a puz")]} :
         response' = [finish_reason |-> finish.reason,
                      message |-> [role |-> "assistant", content |-> finish.content]]
    /\ pc' = "AwaitingModel"
    /\ UNCHANGED <<history, messages, results, dispatched, handler, req, returned, exception>>

\* The model answers with any other finish_reason: chat returns the content. The
\* message's tool_calls is None then: the field is not populated.
ModelAnswers ==
    /\ pc = "AwaitingModel"
    /\ \E finish \in {[reason |-> "stop", content |-> JStr("Portal is a puzzle game.")],
                      [reason |-> "length", content |-> JStr("Portal is a puz")],
                      [reason |-> "content_filter", content |-> JNull]} :
         /\ response' = [finish_reason |-> finish.reason,
                         message |-> [role |-> "assistant", content |-> finish.content]]
         /\ returned' = finish.content
    /\ pc' = "Done"
    /\ UNCHANGED <<history, messages, results, dispatched, handler, req, exception>>

\* The call of the model raises (openai.OpenAIError): nothing in chat catches it.
ModelRaises ==
    /\ pc = "AwaitingModel"
    /\ pc' = "Raised"
    /\ exception' = Raise("OpenAIError")
    /\ UNCHANGED <<history, messages, response, results, dispatched, handler, req, returned>>

\* A slip: the conversation is the caller's list itself, so a round's turns land in it.
DispatchImmediateAliased ==
    /\ pc = "DispatchingTools"
    /\ \E d \in {Dispatch(CurrentCall)} :
          /\ d.kind = "result"
          /\ ResultAppended(d.result)
          /\ dispatched' = Dispatched(CurrentCall, d.invoked)
    /\ history' = history \o SubSeq(messages', Len(messages) + 1, Len(messages'))
    /\ UNCHANGED <<response, handler, req, returned, exception>>

\* The tool call needs no provider: an unknown name gives {}, get_current_date its date.
DispatchImmediate ==
    /\ pc = "DispatchingTools"
    /\ \E d \in {Dispatch(CurrentCall)} :
          /\ d.kind = "result"
          /\ ResultAppended(d.result)
          /\ dispatched' = Dispatched(CurrentCall, d.invoked)
    /\ UNCHANGED <<history, response, handler, req, returned, exception>>

\* The tool call's handler calls the client.
DispatchToClient ==
    /\ pc = "DispatchingTools"
    /\ \E d \in {Dispatch(CurrentCall)} :
          /\ d.kind = "request"
          /\ handler' = [t |-> "handler", tool_name |-> CurrentCall.function.name]
          /\ req' = EnterRequest(d.request.url, d.request.params,
                                 DefaultMaxRetries, DefaultBaseDelayMs)
          /\ dispatched' = Dispatched(CurrentCall, d.invoked)
    /\ pc' = "InHandler"
    /\ UNCHANGED <<history, messages, response, results, returned, exception>>

\* Decoding the arguments, calling the global or the handler's own code raises.
DispatchRaises ==
    /\ pc = "DispatchingTools"
    /\ \E d \in {Dispatch(CurrentCall)} :
          /\ d.kind = "raise"
          /\ ChatRaises(d.exc)
          /\ dispatched' = Dispatched(CurrentCall, d.invoked)

\* The client has returned and the handler returns its envelope.
HandlerReturns ==
    /\ pc = "InHandler"
    /\ req.pc = "returned"
    /\ \E result \in {HandlerFinish(handler.tool_name, req.ret)} :
          /\ ~IsRaise(result)
          /\ ResultAppended(result)
    /\ handler' = JNull
    /\ req' = IdleReq
    /\ UNCHANGED <<history, response, dispatched, returned, exception>>

\* The client has returned and the handler raises on what it got.
HandlerRaises ==
    /\ pc = "InHandler"
    /\ req.pc = "returned"
    /\ \E result \in {HandlerFinish(handler.tool_name, req.ret)} :
          /\ IsRaise(result)
          /\ ChatRaises(result)
    /\ UNCHANGED dispatched

\* chat(message, history) is called.
Init ==
    /\ pc = "AwaitingModel"
    /\ history \in Histories
    /\ messages = InitialMessages(UserMessage, history)
    /\ response = JNull
    /\ results = <<>>
    /\ dispatched = <<>>
    /\ handler = JNull
    /\ req = IdleReq
    /\ returned = JNull
    /\ exception = JNull

Next ==
    \/ ModelRequestsTools
    \/ ModelAnswers
    \/ ModelRaises
    \/ DispatchImmediate
    \/ DispatchToClient
    \/ DispatchRaises
    \/ GetSucceeds
    \/ GetFails
    \/ HandlerReturns
    \/ HandlerRaises

Spec == Init /\ [][Next]_vars

\* chat is one sequential control flow: while a step is possible (the model or the
\* provider has something to answer, a statement is left to run), a step is taken.
\* Every step moves this part of the state: the control position, the number of calls
\* dispatched, the client's position and attempts, the finish_reason last received.
Progress ==
    <<pc, Len(dispatched), req.pc, IF req = IdleReq THEN 0 ELSE Len(req.log),
      IF response = JNull THEN "" ELSE response.finish_reason>>

\* Control leaves a handler whose client call has returned: by return or by raise.
HandlerEnds ==
    /\ pc = "InHandler"
    /\ req.pc = "returned"
    /\ pc' \in {"AwaitingModel", "DispatchingTools", "Raised"}

\* The model answers each call, handle_tool_calls goes on to its next tool call, the
\* provider answers each GET, and a handler runs to its end.
SpecFair ==
    /\ Init
    /\ [][Next]_vars
    /\ WF_Progress(ModelRequestsTools \/ ModelAnswers \/ ModelRaises)
    /\ WF_Progress(DispatchImmediate \/ DispatchToClient \/ DispatchRaises)
    /\ WF_Progress(GetSucceeds \/ GetFails)
    /\ WF_pc(HandlerEnds)

---------------------------------------------------------------------------
(* find_multiple_games called on its own, with the arguments a model may send. *)

\* The enumerations of constants.py that VIDEO_GAME_TOOLS declares for the parameters.
DEVELOPER_SLUGS == {"valve-software", "nintendo"}
PUBLISHER_SLUGS == {"valve", "electronic-arts"}
GENRE_SLUGS == {"puzzle", "action"}
TAG_SLUGS == {"singleplayer", "co-op"}
ORDERINGS == {"-metacritic", "released", "name"}

\* The enumeration the tool declaration gives each enum-constrained parameter.
DeclaredEnum ==
    [parent_platforms |-> DOMAIN PARENT_PLATFORM_SLUG_TO_ID,
     platforms |-> DOMAIN PLATFORM_SLUG_TO_ID,
     stores |-> DOMAIN STORE_SLUG_TO_ID,
     developers |-> DEVELOPER_SLUGS,
     publishers |-> PUBLISHER_SLUGS,
     genres |-> GENRE_SLUGS,
     tags |-> TAG_SLUGS,
     ordering |-> ORDERINGS]

\* The parameters find_multiple_games normalizes to lists.
ListParams == {"parent_platforms", "platforms", "stores", "developers", "publishers", "genres", "tags"}
\* Those it translates to provider ids.
SlugTables ==
    [parent_platforms |-> PARENT_PLATFORM_SLUG_TO_ID,
     platforms |-> PLATFORM_SLUG_TO_ID,
     stores |-> STORE_SLUG_TO_ID]

\* A value of each parameter's enumeration, and one that is in none.
InEnum ==
    [parent_platforms |-> "playstation", platforms |-> "playstation5", stores |-> "steam",
     developers |-> "valve-software", publishers |-> "valve", genres |-> "puzzle",
     tags |-> "co-op", ordering |-> "-metacritic"]
AlsoInEnum ==
    [parent_platforms |-> "pc", platforms |-> "pc", stores |-> "gog",
     developers |-> "nintendo", publishers |-> "electronic-arts", genres |-> "action",
     tags |-> "singleplayer", ordering |-> "released"]
OutOfEnum == "atari-2600-homebrew"

\* The values tried for a list parameter: null, a bare scalar, a list, in and out of
\* the enumeration, and a scalar of the wrong type.
ListArgumentValues(p) ==
    {JNull, JStr(InEnum[p]), JStr(OutOfEnum), JInt(7), JList(<<>>), JList(<<JStr(InEnum[p])>>),
     JList(<<JStr(InEnum[p]), JStr(OutOfEnum)>>),
     JList(<<JStr(AlsoInEnum[p]), JStr(OutOfEnum), JStr(InEnum[p])>>)}

\* The ordering argument tried: left out, in the enumeration, outside it.
OrderingArguments ==
    {<<>>, [ordering |-> JStr(InEnum.ordering)], [ordering |-> JStr(OutOfEnum)]}

\* A field of a record or a keyword argument: left out, null, or the given value.
FieldOptions(field, value) == {<<>>, (field :> JNull), (field :> value)}

\* The bound arguments tried: each bound left out, null, or supplied; a date also as
\* the empty string, a score also as 0.
BoundArguments ==
    {lower_date @@ upper_date @@ lower_score @@ upper_score :
       lower_date \in FieldOptions("release_date_lower_bound", JStr("2020-01-01"))
                        \cup {[release_date_lower_bound |-> JStr("")]},
       upper_date \in FieldOptions("release_date_upper_bound", JStr("2020-12-31"))
                        \cup {[release_date_upper_bound |-> JStr("")]},
       lower_score \in FieldOptions("metacritic_lower_bound", JInt(50))
                         \cup {[metacritic_lower_bound |-> JInt(0)]},
       upper_score \in FieldOptions("metacritic_upper_bound", JInt(90))
                         \cup {[metacritic_upper_bound |-> JInt(0)]}}

\* The keyword arguments tried: at most one list parameter and the ordering, or bounds.
FindMultipleGamesArguments ==
    {JObj(ordering) : ordering \in OrderingArguments}
    \cup {JObj(bounds) : bounds \in BoundArguments}
    \cup UNION {{JObj((p :> v) @@ ordering) :
                    v \in ListArgumentValues(p), ordering \in OrderingArguments} :
                 p \in ListParams}

\* Lines 157-163: the list parameters after normalization.
NormalizedListParams(arguments) ==
    [p \in ListParams |-> _normalize_list_param(Arg(arguments, p, JNull))]

\* The frame of the handler: its arguments and, once lines 157-163 have run, its lists.
ToolFrame(arguments, lists) ==
    [t |-> "handler", tool_name |-> "find_multiple_games", arguments |-> arguments,
     lists |-> lists]

\* find_multiple_games normalizes and translates its arguments and calls the client.
FindMultipleGamesCallsClient ==
    /\ pc = "ToolCalled"
    /\ \E request \in {FindMultipleGamesRequest(handler.arguments)} :
          /\ ~IsRaise(request)
          /\ req' = EnterRequest(request.url, request.params,
                                 DefaultMaxRetries, DefaultBaseDelayMs)
    /\ handler' = ToolFrame(handler.arguments, NormalizedListParams(handler.arguments))
    /\ pc' = "ToolInClient"
    /\ UNCHANGED <<history, messages, response, results, dispatched, returned, exception>>

\* Assembling the request raises: ",".join of a list that holds a non-string.
FindMultipleGamesRaisesEarly ==
    /\ pc = "ToolCalled"
    /\ \E request \in {FindMultipleGamesRequest(handler.arguments)} :
          /\ IsRaise(request)
          /\ exception' = request
    /\ handler' = ToolFrame(handler.arguments, NormalizedListParams(handler.arguments))
    /\ pc' = "ToolRaised"
    /\ UNCHANGED <<history, messages, response, results, dispatched, req, returned>>

\* The client has returned and find_multiple_games returns its envelope.
FindMultipleGamesReturns ==
    /\ pc = "ToolInClient"
    /\ req.pc = "returned"
    /\ \E result \in {FindMultipleGamesFinish(req.ret)} :
          /\ ~IsRaise(result)
          /\ returned' = result
    /\ pc' = "ToolReturned"
    /\ UNCHANGED <<history, messages, response, results, dispatched, handler, req, exception>>

\* The client has returned and find_multiple_games raises on what it got.
FindMultipleGamesRaises ==
    /\ pc = "ToolInClient"
    /\ req.pc = "returned"
    /\ \E result \in {FindMultipleGamesFinish(req.ret)} :
          /\ IsRaise(result)
          /\ exception' = result
    /\ pc' = "ToolRaised"
    /\ UNCHANGED <<history, messages, response, results, dispatched, handler, req, returned>>

ToolsInit ==
    /\ pc = "ToolCalled"
    /\ history = <<>>
    /\ messages = <<>>
    /\ response = JNull
    /\ results = <<>>
    /\ dispatched = <<>>
    /\ req = IdleReq
    /\ returned = JNull
    /\ exception = JNull
    /\ \E arguments \in FindMultipleGamesArguments : handler = ToolFrame(arguments, <<>>)

ToolsNext ==
    \/ FindMultipleGamesCallsClient
    \/ FindMultipleGamesRaisesEarly
    \/ GetSucceeds
    \/ GetFails
    \/ FindMultipleGamesReturns
    \/ FindMultipleGamesRaises

SpecTools == ToolsInit /\ [][ToolsNext]_vars

---------------------------------------------------------------------------
(* create_game_objects_from_search_results called on its own, with the    *)
(* record lists a provider may answer with.                                *)

\* Records in which each of platforms, stores, genres and esrb_rating is missing,
\* null or well-formed.
SparseRecords ==
    {JObj([id |-> JInt(1), name |-> JStr("Portal")] @@ platforms @@ stores @@ genres @@ esrb) :
       platforms \in FieldOptions("platforms", GoodRecord(1, "Portal").o.platforms),
       stores \in FieldOptions("stores", GoodRecord(1, "Portal").o.stores),
       genres \in FieldOptions("genres", GoodRecord(1, "Portal").o.genres),
       esrb \in FieldOptions("esrb_rating", GoodRecord(1, "Portal").o.esrb_rating)}

\* The entries of a platforms or stores list: two with a name, one whose sub-object
\* has no name, one whose name is null, one without the sub-object, one whose
\* sub-object is null.
WrappedEntries(wrapper) ==
    {JObj((wrapper :> JObj([name |-> JStr("PC")]))),
     JObj((wrapper :> JObj([name |-> JStr("Xbox")]))),
     JObj((wrapper :> EmptyDict)),
     JObj((wrapper :> JObj([name |-> JNull]))),
     EmptyDict,
     JObj((wrapper :> JNull))}

\* The entries of a genres list, which carry the name themselves.
GenreEntries ==
    {JObj([name |-> JStr("Puzzle")]), JObj([name |-> JStr("Action")]), EmptyDict,
     JObj([name |-> JNull])}

\* The lists of at most two of the entries.
EntryLists(entries) ==
    {<<>>} \cup {<<a>> : a \in entries} \cup {<<a, b>> : a \in entries, b \in entries}

\* Records with one list of entries.
EntryRecords ==
    {JObj([id |-> JInt(1), name |-> JStr("Portal"), platforms |-> JList(l)]) :
       l \in EntryLists(WrappedEntries("platform"))}
    \cup {JObj([id |-> JInt(1), name |-> JStr("Portal"), stores |-> JList(l)]) :
            l \in EntryLists(WrappedEntries("store"))}
    \cup {JObj([id |-> JInt(1), name |-> JStr("Portal"), genres |-> JList(l)]) :
            l \in EntryLists(GenreEntries)}

\* The search_results the normalizer is called with: none, an empty list, one
\* record, a sparse record before a full one.
SearchResultsTried ==
    {JNull, JList(<<>>)}
    \cup {JList(<<r>>) : r \in SparseRecords \cup EntryRecords}
    \cup {JList(<<r, GoodRecord(2, "Portal 2")>>) : r \in SparseRecords}

\* The call returns the list of parsed games.
NormalizerReturns ==
    /\ pc = "NormalizerCalled"
    /\ \E parsed_games \in {CreateGameObjects(handler.search_results)} :
          /\ ~IsRaise(parsed_games)
          /\ returned' = parsed_games
    /\ pc' = "NormalizerReturned"
    /\ UNCHANGED <<history, messages, response, results, dispatched, handler, req, exception>>

\* The call raises while it reads a record.
NormalizerRaises ==
    /\ pc = "NormalizerCalled"
    /\ \E parsed_games \in {CreateGameObjects(handler.search_results)} :
          /\ IsRaise(parsed_games)
          /\ exception' = parsed_games
    /\ pc' = "NormalizerRaised"
    /\ UNCHANGED <<history, messages, response, results, dispatched, handler, req, returned>>

NormalizerInit ==
    /\ pc = "NormalizerCalled"
    /\ history = <<>>
    /\ messages = <<>>
    /\ response = JNull
    /\ results = <<>>
    /\ dispatched = <<>>
    /\ req = IdleReq
    /\ returned = JNull
    /\ exception = JNull
    /\ \E search_results \in SearchResultsTried :
         handler = [t |-> "normalizer", search_results |-> search_results]

NormalizerNext == NormalizerReturns \/ NormalizerRaises

SpecNormalizer == NormalizerInit /\ [][NormalizerNext]_vars

---------------------------------------------------------------------------
(* Properties of the Catalogue Client. *)

InRequest == req.pc \in {"try", "returned"}
AllFailed(log) == \A k \in 1..Len(log) : ~log[k].ok
\* The log is k-1 failed GETs followed by a successful one at position k.
FailuresThenSuccess(log, k) == log[k].ok /\ \A j \in 1..(k - 1) : ~log[j].ok

\* C1: when the first N GETs fail and GET N+1 succeeds (N < max_retries), the call
\* has returned {success: true, results: <the body of GET N+1>} and exactly N+1
\* GETs were issued.
C1_RetrySuccess ==
    InRequest =>
      \A k \in 1..Len(req.log) :
        FailuresThenSuccess(req.log, k) =>
          /\ k <= req.max_retries
          /\ Len(req.log) = k
          /\ req.attempt = k - 1
          /\ req.pc = "returned"
          /\ req.ret = JObj([success |-> JBool(TRUE), results |-> req.log[k].body])

\* Two failures, then a success on the third and last allowed attempt.
C1_Witness ==
    /\ InRequest
    /\ req.pc = "returned"
    /\ req.max_retries = 3
    /\ Len(req.log) = 3
    /\ FailuresThenSuccess(req.log, 3)

\* C2: when max_retries (>= 1) consecutive GETs fail, the call has returned, without
\* raising and after exactly max_retries GETs, an envelope with success = false and
\* a non-empty reason; and it gives up no earlier than that.
C2_Exhaustion ==
    (InRequest /\ req.max_retries >= 1 /\ AllFailed(req.log)) =>
      /\ Len(req.log) <= req.max_retries
      /\ (req.pc = "returned" <=> Len(req.log) = req.max_retries)
      /\ req.pc = "returned" =>
           /\ req.ret.t = "obj"
           /\ req.ret.o.success = JBool(FALSE)
           /\ DOMAIN req.ret.o = {"success", "error"}
           /\ req.ret.o.error.t = "str"
           /\ req.ret.o.error.s # ""
           /\ exception = JNull

\* Three failures out of three allowed attempts.
C2_Witness ==
    /\ InRequest
    /\ req.pc = "returned"
    /\ req.max_retries = 3
    /\ Len(req.log) = 3
    /\ AllFailed(req.log)

\* C3: a 2xx answer ends the request on that attempt, an empty result set included:
\* it is the last GET issued, success = true is returned, and no sleep follows it
\* (the sleeps are those after the failures before it).
C3_NoRetryAfterSuccess ==
    InRequest =>
      \A k \in 1..Len(req.log) :
        req.log[k].ok =>
          /\ k = Len(req.log)
          /\ req.pc = "returned"
          /\ req.ret.o.success = JBool(TRUE)
          /\ Len(req.delays) = k - 1

\* An empty result set answered on the second of three allowed attempts.
C3_Witness ==
    /\ InRequest
    /\ req.pc = "returned"
    /\ req.max_retries = 3
    /\ Len(req.log) = 2
    /\ req.log[2].ok
    /\ req.log[2].body = BodyNoMatch
    /\ req.ret.o.results.o.results = JList(<<>>)

\* The ResultEnvelope shape: success is a boolean, and results is populated exactly
\* when it is true, failure_reason exactly when it is false.
Populated(v, k) == v.t = "obj" /\ k \in DOMAIN v.o /\ v.o[k] # JNull
IsResultEnvelope(v) ==
    /\ Populated(v, "success")
    /\ v.o.success.t = "bool"
    /\ Populated(v, "results") <=> v.o.success.b
    /\ Populated(v, "failure_reason") <=> ~v.o.success.b

\* C11 (as claimed): what the client's request operation returns, and the payload of
\* every tool turn gathered or appended, is a ResultEnvelope: results populated if
\* and only if success is true, failure_reason if and only if success is false.
C11_ResultEnvelopeShape ==
    /\ (InRequest /\ req.pc = "returned") => IsResultEnvelope(req.ret)
    /\ \A i \in 1..Len(results) : IsResultEnvelope(results[i].content.of)
    /\ \A i \in 1..Len(messages) :
         messages[i].role = "tool" => IsResultEnvelope(messages[i].content.of)

\* C12 (as claimed): when every attempt has failed, the envelope the client returns
\* carries, in its failure_reason field, the message of the error of the last attempt.
C12_LastErrorInFailureReason ==
    (InRequest /\ req.pc = "returned" /\ Len(req.log) >= 1 /\ AllFailed(req.log)) =>
      PyGet(req.ret, "failure_reason", JNull) = JStr(req.log[Len(req.log)].error)

\* The sleep before attempt k (1-indexed, k >= 2).
DelayBefore(k) == req.delays[k - 1]

\* C13: one sleep precedes every attempt from the second on and none follows the
\* last; the sleep before attempt k is base_delay * 2^(k-2) plus a jitter of at least
\* 0 and less than 100 ms, so with the default base delay of 1 s it lies in
\* [1000, 1100) ms before attempt 2 and in [2000, 2100) ms before attempt 3.
C13_BackoffSchedule ==
    InRequest =>
      /\ Len(req.delays) = IF req.pc = "try" THEN req.attempt
                           ELSE IF req.log = <<>> THEN 0 ELSE Len(req.log) - 1
      /\ \A k \in 2..(Len(req.delays) + 1) :
           /\ DelayBefore(k) - req.base_delay * Pow2(k - 2) >= 0
           /\ DelayBefore(k) - req.base_delay * Pow2(k - 2) < 100
           /\ (req.base_delay = 1000 /\ k = 2) => (1000 <= DelayBefore(k) /\ DelayBefore(k) < 1100)
           /\ (req.base_delay = 1000 /\ k = 3) => (2000 <= DelayBefore(k) /\ DelayBefore(k) < 2100)

\* The third attempt of a request with the default base delay is about to be made,
\* after sleeps at the two ends of the jitter range.
C13_Witness ==
    /\ InRequest
    /\ req.pc = "try"
    /\ req.attempt = 2
    /\ req.base_delay = 1000
    /\ req.delays = <<1000, 2099>>

\* C14 (as claimed): for every base delay > 0 the sleeps of one request are strictly
\* increasing.
C14_StrictlyIncreasingForAnyBase ==
    (InRequest /\ req.base_delay > 0) =>
      \A k \in 2..Len(req.delays) : DelayBefore(k + 1) > DelayBefore(k)

\* C14 (amended): for every base delay of at least the jitter range (100 ms), the
\* default of 1 s included, the sleeps of one request are strictly increasing.
C14_StrictlyIncreasingFromJitterRange ==
    (InRequest /\ req.base_delay >= JitterRangeMs) =>
      \A k \in 2..Len(req.delays) : DelayBefore(k + 1) > DelayBefore(k)

\* A base delay equal to the jitter range, the largest jitter first and the smallest
\* second: the sleeps still increase.
C14_Witness ==
    /\ InRequest
    /\ req.base_delay = JitterRangeMs
    /\ req.delays = <<199, 200>>

---------------------------------------------------------------------------
(* Properties of the orchestration loop and the handlers. *)

InRound == pc \in {"DispatchingTools", "InHandler"}
\* The tool calls of the last response, when it requested any.
RequestedCalls ==
    IF response # JNull /\ response.finish_reason = "tool_calls"
    THEN response.message.tool_calls ELSE <<>>
IsToolTurn(turn) == turn.role = "tool"
HasToolCalls(turn) == turn.role = "assistant" /\ "tool_calls" \in DOMAIN turn
\* The tool turn appended last: in the conversation once the round is over, else in results.
LastAppended ==
    IF pc = "AwaitingModel" THEN messages[Len(messages)] ELSE results[Len(results)]

\* C4: chat is Done, with an answer returned, only when the last response's finish
\* indicator is no tool-call request; a step that takes in a tool-call request or
\* works on one never ends in Done, and the step that completes the round (the one
\* that changes the conversation) ends in AwaitingModel with nothing returned.
C4_ExitCondition ==
    /\ [](/\ pc = "Done" => /\ response.finish_reason # "tool_calls"
                            /\ returned = response.message.content
          /\ returned # JNull => pc = "Done"
          /\ InRound => response.finish_reason = "tool_calls")
    /\ [][/\ (InRound \/ RequestedCalls' # <<>>) => pc' # "Done"
          /\ messages' # messages => (InRound /\ pc' = "AwaitingModel" /\ returned' = JNull)
          /\ pc' = "Done" => pc = "AwaitingModel"]_vars

\* An answer returned after a round of tool calls.
C4_Witness ==
    /\ pc = "Done"
    /\ Len(dispatched) >= 1
    /\ response.finish_reason = "stop"
    /\ returned = JStr("Portal is a puzzle game.")

\* C5: every tool turn of the conversation carries the id of a tool call of an
\* assistant message at an earlier position, and after a round the message that
\* requested the calls sits, unchanged, right before that round's results.
C5_ResultCorrelation ==
    /\ \A i \in 1..Len(messages) :
         IsToolTurn(messages[i]) =>
           \E j \in 1..(i - 1) :
             /\ HasToolCalls(messages[j])
             /\ \E k \in 1..Len(messages[j].tool_calls) :
                  messages[j].tool_calls[k].id = messages[i].tool_call_id
    /\ (pc = "AwaitingModel" /\ RequestedCalls # <<>>) =>
         messages[Len(messages) - Len(RequestedCalls)] = response.message

\* Two rounds of one tool call each have been appended.
C5_Witness ==
    /\ pc = "AwaitingModel"
    /\ Cardinality({i \in 1..Len(messages) : IsToolTurn(messages[i])}) = 2
    /\ Cardinality({i \in 1..Len(messages) : HasToolCalls(messages[i])}) = 2

\* C6: for a round that requested calls c1..cn, the results gathered so far are, in
\* order, one tool turn per call dispatched (the i-th with the id of ci); once the
\* round is over the conversation ends with the requesting message followed by
\* exactly n tool turns, the i-th with the id of ci; and every call was dispatched
\* exactly once.
C6_OneResultPerCallInOrder ==
    /\ InRound =>
         /\ Len(results) < Len(RequestedCalls)
         /\ \A i \in 1..Len(results) :
              IsToolTurn(results[i]) /\ results[i].tool_call_id = RequestedCalls[i].id
    /\ (pc = "AwaitingModel" /\ RequestedCalls # <<>>) =>
         LET n == Len(RequestedCalls)
             base == Len(messages) - n
         IN /\ base >= 1
            /\ HasToolCalls(messages[base])
            /\ \A i \in 1..n :
                 /\ IsToolTurn(messages[base + i])
                 /\ messages[base + i].tool_call_id = RequestedCalls[i].id
    /\ pc \in {"AwaitingModel", "DispatchingTools", "InHandler"} =>
         \A i \in 1..Len(RequestedCalls) :
           Cardinality({k \in 1..Len(dispatched) : dispatched[k].call = RequestedCalls[i]})
             = IF pc = "AwaitingModel" \/ i <= Len(results) \/ (pc = "InHandler" /\ i = Len(results) + 1)
               THEN 1 ELSE 0

\* A round of two tool calls has been appended.
C6_Witness ==
    /\ pc = "AwaitingModel"
    /\ Len(RequestedCalls) = 2
    /\ IsToolTurn(messages[Len(messages)])
    /\ IsToolTurn(messages[Len(messages) - 1])

\* The handlers of tools.py.
RegisteredTools == VIDEO_GAME_TOOLS \cup {"get_game_description"}

\* C7 (as claimed): a tool call whose name is no registered tool never makes
\* handle_tool_calls raise and invokes nothing: its result is the empty envelope,
\* appended under the call's id.
C7_UnknownToolIsNeutral ==
    \A k \in 1..Len(dispatched) :
      dispatched[k].call.function.name \notin RegisteredTools =>
        /\ ~dispatched[k].invoked
        /\ ~(pc = "Raised" /\ k = Len(dispatched))
        /\ (pc = "AwaitingModel" /\ k = Len(dispatched)) =>
             LastAppended = [role |-> "tool", content |-> JsonDumps(EmptyDict),
                             tool_call_id |-> dispatched[k].call.id]

\* C8 (as claimed): once the provider has answered a handler's request with a 2xx
\* body, the handler returns an envelope, whatever the shape of the body: the step
\* appends a tool turn and no exception leaves the handler.
C8_NoParsingFaultPropagates ==
    [][(pc = "InHandler" /\ req.pc = "returned" /\ req.ret.o.success = JBool(TRUE)) =>
         /\ pc' # "Raised"
         /\ exception' = JNull
         /\ IsToolTurn(LastAppended')]_vars

\* C9 (as claimed): when the provider answers a find_game_by_name search with zero
\* matching records, the tool turn appended for the call carries
\* {success: false, failure_reason: "Failed to parse database results."}.
C9_ZeroMatchesReason ==
    [][(/\ pc = "InHandler"
        /\ handler.tool_name = "find_game_by_name"
        /\ req.pc = "returned"
        /\ req.ret = SuccessEnvelope(BodyNoMatch)) =>
         LastAppended' =
           [role |-> "tool",
            content |-> JsonDumps(JObj([success |-> JBool(FALSE),
                                        failure_reason |-> JStr("Failed to parse database results.")])),
            tool_call_id |-> CurrentCall.id]]_vars

\* The envelope of scenario B for a transport error message.
TransportFailureEnvelope(error) ==
    JObj([success |-> JBool(FALSE),
          failure_reason |-> FStr(<<JStr("Database error: "), JStr(error)>>)])

\* C10: a handler's request runs with the default 3 attempts; when all of them have
\* failed, the handler's next step raises nothing and appends, under the call's id,
\* the tool turn whose content is the JSON text of
\* {success: false, failure_reason: "Database error: " + <the client's error message>}.
C10_ProviderUnreachable ==
    /\ [](pc = "InHandler" =>
            /\ req.max_retries = 3
            /\ (AllFailed(req.log) /\ Len(req.log) = 3) => req.pc = "returned")
    /\ [][(pc = "InHandler" /\ req.pc = "returned" /\ AllFailed(req.log)) =>
            /\ Len(req.log) = 3
            /\ pc' \in {"DispatchingTools", "AwaitingModel"}
            /\ exception' = JNull
            /\ LastAppended' =
                 [role |-> "tool",
                  content |-> JsonDumps(TransportFailureEnvelope(req.log[3].error)),
                  tool_call_id |-> CurrentCall.id]]_vars

\* The conversation holds the tool turn of a lookup whose three attempts failed, for
\* each of the three handlers that use the client.
C10_Witness ==
    /\ pc = "AwaitingModel"
    /\ Len(RequestedCalls) = 1
    /\ RequestedCalls[1].function.name \in
         {"find_game_by_name", "find_multiple_games", "get_game_description"}
    /\ LastAppended.content =
         JsonDumps(TransportFailureEnvelope("HTTPError: 503 Server Error"))

IsPrefix(a, b) == Len(a) <= Len(b) /\ SubSeq(b, 1, Len(a)) = a

\* C15: the conversation always begins with the turns chat built on entry, every
\* step leaves the conversation it found as a prefix of the one it leaves, and a
\* step that changes it is the end of a round that requested n tool calls and
\* makes it exactly n+1 turns longer.
C15_AppendOnly ==
    /\ [](pc # "Direct" => IsPrefix(InitialMessages(UserMessage, history), messages))
    /\ [][/\ IsPrefix(messages, messages')
          /\ messages' # messages =>
               /\ InRound
               /\ pc' = "AwaitingModel"
               /\ Len(messages') = Len(messages) + Len(RequestedCalls) + 1]_vars

\* A round of two tool calls has made a conversation with a history three turns longer.
C15_Witness ==
    /\ pc = "AwaitingModel"
    /\ history # <<>>
    /\ Len(RequestedCalls) = 2
    /\ Len(messages) = Len(InitialMessages(UserMessage, history)) + 3

\* C16 (as claimed): the only exception that leaves chat is the one the model call
\* raised; no failure on the tool side ends the chat turn.
C16_OnlyModelErrorTerminates ==
    [][pc' = "Raised" => (pc = "AwaitingModel" /\ exception' = Raise("OpenAIError"))]_vars

---------------------------------------------------------------------------
(* Properties of find_multiple_games. *)

\* The list the claim has an argument value arrive as: [] for null, the list itself
\* for a list, [v] for a bare scalar v.
AsList(v) == IF v = JNull THEN <<>> ELSE IF v.t = "list" THEN v.l ELSE <<v>>

\* What the request parameter of a list is: left out for an empty list, else the
\* comma-joined items.
ListReaches(params, p, items) ==
    IF items = <<>> THEN p \notin DOMAIN params.o
    ELSE p \in DOMAIN params.o /\ params.o[p] = Joined(items)

\* C17: once find_multiple_games has normalized its arguments, each of its seven
\* list parameters holds [] for a null or absent argument, the list itself for a
\* list and [v] for a bare scalar v; normalizing that again changes nothing; and
\* when the client is called, that list is what its request parameter is made of
\* (its items, or the provider ids of its slugs, comma-joined; none when it is empty).
C17_ListOrScalar ==
    pc \in {"ToolInClient", "ToolReturned", "ToolRaised"} =>
      \A p \in ListParams :
        LET v == Arg(handler.arguments, p, JNull)
        IN /\ handler.lists[p] = JList(AsList(v))
           /\ _normalize_list_param(_normalize_list_param(v)) = _normalize_list_param(v)
           /\ _normalize_list_param(handler.lists[p]) = handler.lists[p]
           /\ req # IdleReq =>
                IF p \in DOMAIN SlugTables
                THEN ListReaches(req.params, p, SlugIds(AsList(v), SlugTables[p]).l)
                ELSE ListReaches(req.params, p, AsList(v))

\* A bare scalar developer has reached the client as a one-element list.
C17_Witness ==
    /\ pc = "ToolInClient"
    /\ handler.arguments.o = [developers |-> JStr("valve-software")]
    /\ handler.lists.developers = JList(<<JStr("valve-software")>>)
    /\ req.params.o.developers = Joined(<<JStr("valve-software")>>)

\* The values a request parameter carries for an enum-constrained parameter.
ValuesSent(params, p) ==
    IF p \notin DOMAIN params.o THEN {}
    ELSE IF params.o[p].t = "joined"
    THEN {params.o[p].items[i] : i \in 1..Len(params.o[p].items)}
    ELSE {params.o[p]}

\* C18 (as claimed): no request the client is given carries, for ordering, genres,
\* tags, developers or publishers, a value outside the parameter's declared
\* enumeration, nor, for platforms, parent_platforms or stores, an id that is not
\* the id of a declared slug.
C18_EnumValidatedBeforeDispatch ==
    req # IdleReq =>
      /\ \A p \in {"ordering", "genres", "tags", "developers", "publishers"} :
           \A sent \in ValuesSent(req.params, p) :
             sent.t = "str" /\ sent.s \in DeclaredEnum[p]
      /\ \A p \in DOMAIN SlugTables :
           \A sent \in ValuesSent(req.params, p) :
             sent.t = "int" /\ \E slug \in DeclaredEnum[p] : SlugTables[p][slug] = sent.n

---------------------------------------------------------------------------
(* Properties of the normalizer. *)

\* Whether a field of a record is missing or null.
MissingOrNull(record, field) == field \notin DOMAIN record.o \/ record.o[field] = JNull

\* C19: called with no list or an empty one the normalizer returns an empty list;
\* called with records in which platforms, stores, genres or esrb_rating is missing
\* or null (the other fields well-formed) it raises nothing and returns one game per
\* record, in order, with an empty list for each missing or null platforms, stores
\* or genres and a null rating for a missing or null esrb_rating.
C19_NormalizerTotal ==
    LET search_results == handler.search_results
    IN /\ (pc # "NormalizerCalled" /\ ~Truthy(search_results)) =>
            (pc = "NormalizerReturned" /\ returned = JList(<<>>))
       /\ (pc # "NormalizerCalled" /\ Truthy(search_results)
             /\ \A i \in 1..Len(search_results.l) :
                  search_results.l[i] \in SparseRecords \cup {GoodRecord(2, "Portal 2")}) =>
            /\ pc = "NormalizerReturned"
            /\ exception = JNull
            /\ Len(returned.l) = Len(search_results.l)
            /\ \A i \in 1..Len(search_results.l) :
                 /\ returned.l[i].fields.game_id = search_results.l[i].o.id
                 /\ \A field \in {"platforms", "stores", "genres"} :
                      MissingOrNull(search_results.l[i], field) =>
                        returned.l[i].fields[field] = JList(<<>>)
                 /\ MissingOrNull(search_results.l[i], "esrb_rating") =>
                      returned.l[i].fields.esrb_rating = JNull

\* A record with null platforms and no stores, genres or rating, before a full
\* record, has been normalized.
C19_Witness ==
    /\ pc = "NormalizerReturned"
    /\ handler.search_results =
         JList(<<JObj([id |-> JInt(1), name |-> JStr("Portal"), platforms |-> JNull]),
                 GoodRecord(2, "Portal 2")>>)
    /\ returned.l[1].fields.platforms = JList(<<>>)
    /\ returned.l[1].fields.esrb_rating = JNull
    /\ returned.l[2].fields.platforms = JList(<<JStr("PC")>>)

\* The display name of an entry, inside its wrapping sub-object (or in the entry
\* itself for a genre, wrapper ""), or null when it has none.
DisplayName(entry, wrapper) ==
    IF wrapper = ""
    THEN IF "name" \in DOMAIN entry.o THEN entry.o.name ELSE JNull
    ELSE IF wrapper \in DOMAIN entry.o /\ entry.o[wrapper].t = "obj"
              /\ "name" \in DOMAIN entry.o[wrapper].o
    THEN entry.o[wrapper].o.name ELSE JNull

\* The display names of the entries that have one, in input order.
DisplayNames(entries, wrapper) ==
    LET named == SelectSeq(entries, LAMBDA e : DisplayName(e, wrapper) # JNull)
    IN [i \in 1..Len(named) |-> DisplayName(named[i], wrapper)]

WrapperOf == [platforms |-> "platform", stores |-> "store", genres |-> ""]

\* C20 (as claimed): for a record with a list of platform, store or genre entries,
\* the normalizer raises nothing and the game's list holds exactly the display names
\* of the entries that have one, in input order; an entry whose name is missing or
\* null, or whose wrapping sub-object is missing or null, is dropped.
C20_NestedEntryExtraction ==
    (pc # "NormalizerCalled" /\ Truthy(handler.search_results)
       /\ handler.search_results.l[1] \in EntryRecords) =>
      /\ pc = "NormalizerReturned"
      /\ \A field \in DOMAIN WrapperOf :
           field \in DOMAIN handler.search_results.l[1].o =>
             returned.l[1].fields[field] =
               JList(DisplayNames(handler.search_results.l[1].o[field].l, WrapperOf[field]))

---------------------------------------------------------------------------
(* Properties of find_multiple_games: slugs and bounds. *)

\* The ids of the slugs the table knows, in the order of the slugs.
RecognizedIds(items, table) ==
    LET recognized == SelectSeq(items, LAMBDA slug : slug.t = "str" /\ slug.s \in DOMAIN table)
    IN [i \in 1..Len(recognized) |-> JInt(table[recognized[i].s])]

\* C21: whatever slugs find_multiple_games is given for platforms, parent_platforms
\* or stores, it raises nothing before the client call and calls the client, and the
\* request's parameter is made of exactly the table's ids of the recognized slugs,
\* in input order (no parameter when none is recognized).
C21_SlugTranslation ==
    \A p \in DOMAIN SlugTables :
      (pc # "ToolCalled" /\ p \in DOMAIN handler.arguments.o) =>
        /\ req # IdleReq
        /\ req.pc \in {"try", "returned"}
        /\ ListReaches(req.params, p,
                       RecognizedIds(AsList(handler.arguments.o[p]), SlugTables[p]))

\* Two recognized platform slugs around an unrecognized one have reached the client
\* as the two ids, in input order.
C21_Witness ==
    /\ pc = "ToolInClient"
    /\ handler.arguments.o =
         [platforms |-> JList(<<JStr("pc"), JStr("atari-2600-homebrew"), JStr("playstation5")>>)]
    /\ req.params.o.platforms = Joined(<<JInt(4), JInt(187)>>)

\* What the claim has a bound arrive as: the default when it is unset (left out, null
\* or, for a date, the empty string), else the bound itself.
ExpectedBound(arguments, k, default) ==
    IF k \notin DOMAIN arguments.o \/ arguments.o[k] \in {JNull, JStr("")}
    THEN default ELSE arguments.o[k]

\* C22: every request find_multiple_games sends carries dates and metacritic, each
\* with both sides populated: the supplied bound where one was supplied (a score of 0
\* included), else 1800-01-01 / 3000-01-01 for the dates and 0 / 100 for the scores.
C22_BoundDefaulting ==
    (req # IdleReq /\ handler # JNull) =>
      /\ {"dates", "metacritic"} \subseteq DOMAIN req.params.o
      /\ req.params.o.dates =
           Range(ExpectedBound(handler.arguments, "release_date_lower_bound", JStr("1800-01-01")),
                 ExpectedBound(handler.arguments, "release_date_upper_bound", JStr("3000-01-01")))
      /\ req.params.o.metacritic =
           Range(ExpectedBound(handler.arguments, "metacritic_lower_bound", JInt(0)),
                 ExpectedBound(handler.arguments, "metacritic_upper_bound", JInt(100)))
      /\ JNull \notin {req.params.o.dates.low, req.params.o.dates.high,
                       req.params.o.metacritic.low, req.params.o.metacritic.high}

\* An upper score bound of 0 and an upper date were supplied, the lower bounds not:
\* the request carries 0,0 and 1800-01-01,2020-12-31.
C22_Witness ==
    /\ pc = "ToolInClient"
    /\ handler.arguments.o =
         [metacritic_upper_bound |-> JInt(0), release_date_upper_bound |-> JStr("2020-12-31")]
    /\ req.params.o.metacritic = Range(JInt(0), JInt(0))
    /\ req.params.o.dates = Range(JStr("1800-01-01"), JStr("2020-12-31"))

\* C23: when no tool call and no model call raises, and the model stops asking for tools
\* after finitely many rounds (it asks for at most MaxToolCalls calls), chat reaches Done
\* and returns the text content of the response that asked for no tool; the loop has no
\* cap of its own: after any number of rounds it takes one more request for tools, and
\* while every response asks for tools Done is not reached.
C23_LoopTermination ==
    /\ [](pc # "Raised")
         => <>(/\ pc = "Done"
               /\ response.finish_reason # "tool_calls"
               /\ returned = response.message.content)
    /\ [](response # JNull => response.finish_reason = "tool_calls") => [](pc # "Done")
    /\ []((pc = "AwaitingModel" /\ Len(dispatched) < MaxToolCalls) => ENABLED ModelRequestsTools)

\* chat has returned the final text after every tool call the model was allowed was made.
C23_Witness ==
    /\ pc = "Done"
    /\ Len(dispatched) >= 2
    /\ Len(messages) >= Len(history) + 6
    /\ returned = JStr("Portal is a puzzle game.")

\* C24: handle_tool_calls runs a function only for a name VIDEO_GAME_TOOLS declares: every
\* call that was dispatched and ran a function of the program names a declared tool.
C24_RegistryClosure ==
    \A k \in 1..Len(dispatched) :
      dispatched[k].invoked => dispatched[k].call.function.name \in VIDEO_GAME_TOOLS

\* The sleeps are those after the failed attempts that were not the last allowed one: the
\* i-th sleep follows the i-th GET, which failed and was not GET number max_retries.
SleepsFollowFailures ==
    /\ Len(req.log) <= req.max_retries
    /\ Len(req.delays) <= Len(req.log)
    /\ \A i \in 1..Len(req.delays) : ~req.log[i].ok /\ i < req.max_retries
    /\ req.pc = "try" => (Len(req.delays) = Len(req.log) /\ Len(req.log) < req.max_retries)

\* C25 (as claimed): the GETs never exceed max_retries, a sleep happens only after a failed
\* attempt that is not the last allowed one, and when the call has returned the number of
\* sleeps is the number of attempts minus one, for every outcome sequence.
C25_AttemptSleepAccounting ==
    InRequest =>
      /\ SleepsFollowFailures
      /\ req.pc = "returned" => Len(req.delays) = Len(req.log) - 1

\* C25 (amended): as claimed, the count holding when at least one GET was issued; with
\* max_retries = 0 the call returns after no GET and no sleep.
C25_AccountingOnceAttempted ==
    InRequest =>
      /\ SleepsFollowFailures
      /\ (req.pc = "returned" /\ req.log # <<>>) => Len(req.delays) = Len(req.log) - 1
      /\ (req.pc = "returned" /\ req.log = <<>>) => (req.delays = <<>> /\ req.max_retries = 0)

\* Two failures out of two allowed attempts: one sleep, between them.
C25_Witness ==
    /\ InRequest
    /\ req.pc = "returned"
    /\ req.max_retries = 2
    /\ Len(req.log) = 2
    /\ AllFailed(req.log)
    /\ Len(req.delays) = 1

\* C26: chat leaves the caller's history as it was: no step changes it, whatever the
\* number of tool rounds, and when chat has returned or raised the history still is the
\* turns between the system turn and the user turn of the conversation, every appended
\* turn being in the conversation only.
C26_HistoryUnchanged ==
    /\ [][history' = history]_vars
    /\ [](pc \in {"Done", "Raised"} =>
            /\ history \in Histories
            /\ Len(messages) >= Len(history) + 2
            /\ SubSeq(messages, 2, Len(history) + 1) = history)

\* chat has raised after a round of one tool call, called with a history of two turns.
C26_Witness ==
    /\ pc = "Raised"
    /\ Len(history) = 2
    /\ Len(messages) = Len(history) + 4
    /\ IsToolTurn(messages[Len(messages)])

SearchHandlers == {"find_game_by_name", "find_multiple_games"}

\* The client's answer holds no record: the transport failed, the match list is empty,
\* or the body has no results field.
ZeroRecords(db_response) ==
    \/ db_response.o.success = JBool(FALSE)
    \/ /\ db_response.o.results.t = "obj"
       /\ \/ "results" \notin DOMAIN db_response.o.results.o
          \/ db_response.o.results.o.results = JList(<<>>)

\* A non-empty list of game records.
IsGameList(v) ==
    /\ v.t = "list"
    /\ v.l # <<>>
    /\ \A i \in 1..Len(v.l) : v.l[i].t = "obj" /\ "game_id" \in DOMAIN v.l[i].o

\* C27: when the client has answered a search handler with zero records, the handler
\* returns (it does not raise) an envelope with success = false; and whenever a search
\* handler returns an envelope with success = true, its results is a non-empty list of
\* game records.
C27_SuccessNeverEmpty ==
    [][(pc = "InHandler" /\ req.pc = "returned" /\ handler.tool_name \in SearchHandlers) =>
         /\ ZeroRecords(req.ret) => pc' # "Raised"
         /\ pc' # "Raised" =>
              /\ LastAppended'.tool_call_id = CurrentCall.id
              /\ LastAppended'.content.of.o.success \in {JBool(TRUE), JBool(FALSE)}
              /\ ZeroRecords(req.ret) => LastAppended'.content.of.o.success = JBool(FALSE)
              /\ LastAppended'.content.of.o.success = JBool(TRUE) =>
                   IsGameList(LastAppended'.content.of.o.results)]_vars

\* Both kinds of outcome in one conversation: find_game_by_name answered with an empty
\* match list gave success = false, and then a search answered with records gave
\* success = true.
C27_Witness ==
    /\ pc = "AwaitingModel"
    /\ Len(dispatched) = 2
    /\ dispatched[1].call.function.name = "find_game_by_name"
    /\ dispatched[2].call.function.name \in SearchHandlers
    /\ \E i \in 1..(Len(messages) - 1) :
         /\ IsToolTurn(messages[i])
         /\ messages[i].content.of.o.success = JBool(FALSE)
    /\ IsToolTurn(LastAppended)
    /\ LastAppended.content.of.o.success = JBool(TRUE)
    /\ IsGameList(LastAppended.content.of.o.results)

\* The first k of the provider's records, as game records: the same ids and names in the
\* same order.
FirstRecords(games, records, k) ==
    /\ games.t = "list"
    /\ Len(games.l) = k
    /\ \A i \in 1..k :
         /\ games.l[i].o.game_id = records[i].o.id
         /\ games.l[i].o.name = records[i].o.name

====
